---- MODULE Spec2Model ----
(***************************************************************************)
(* Area-weighted crosswalk between two vintages of administrative          *)
(* boundaries (direct_run.py): load_shapefiles, the reference-system       *)
(* test,  calculate_intersections, calculate_weights, the threshold        *)
(* filter and save_crosswalk, as one sequential run of create_crosswalk.   *)
(*                                                                         *)
(* Geometry.  The plane is a strip of unit-wide closed tiles; tile c       *)
(* spans x in [c-1, c].  A polygon or multi-polygon is a set of tiles, a   *)
(* geometry is [cells, pts]: its tiles plus isolated boundary points (the  *)
(* lower-dimensional part an intersection can have).  Areas are integers   *)
(* in units of 1e-10, so the negligible-area floor of the code is 1.       *)
(* Floats are exact rationals plus NaN and Inf.                            *)
(***************************************************************************)
EXTENDS Integers, Sequences, FiniteSets, TLC

VARIABLES
    pc,                 \* position inside create_crosswalk
    source_year, target_year, weight_threshold,   \* arguments
    source_gdf, target_gdf,                       \* the two layers
    target_sindex,      \* the spatial index: target rows in leaf order
    idx,                \* loop index of calculate_intersections
    intersections_list, \* local list of calculate_intersections
    pairs,              \* history: <<source row, target row>> of each record
    intersections,      \* create_crosswalk's variable `intersections`
    crosswalk,          \* create_crosswalk's variable `crosswalk`
    saved,              \* tables handed to save_crosswalk, in order
    result,             \* value returned by create_crosswalk
    error,              \* exception propagated to the caller ("" = none)
    stages              \* history: stages that have run, in order

vars == <<pc, source_year, target_year, weight_threshold, source_gdf,
          target_gdf, target_sindex, idx, intersections_list, pairs,
          intersections, crosswalk, saved, result, error, stages>>

-----------------------------------------------------------------------------
(* Bounds of the model *)

MaxSource == 2      \* most rows in a source layer
MaxTarget == 2      \* most rows in a target layer
MaxRecords == 2     \* most records handed directly to calculate_weights

(* Program constant: the floor 1e-10, in area units of 1e-10 *)
AreaFloor == 1

-----------------------------------------------------------------------------
(* Arithmetic *)

RECURSIVE GCD(_, _)
GCD(a, b) == IF b = 0 THEN a ELSE GCD(b, a % b)

Abs(n) == IF n < 0 THEN -n ELSE n

RECURSIVE SumOver(_, _)
SumOver(S, f) ==
    IF S = {} THEN 0
    ELSE LET x == CHOOSE y \in S : TRUE IN f[x] + SumOver(S \ {x}, f)

(* float64 values: finite rationals in lowest terms, NaN, Inf *)
Fin(n, d) == LET g == GCD(Abs(n), d) IN [k |-> "fin", n |-> n \div g, d |-> d \div g]
NaN == [k |-> "nan", n |-> 0, d |-> 1]
Inf == [k |-> "inf", n |-> 1, d |-> 1]
Zero == Fin(0, 1)

isfinite(x) == x.k = "fin"
isna(x) == x.k = "nan"

(* x / y of two float columns *)
FDiv(x, y) ==
    IF x.k = "nan" \/ y.k = "nan" THEN NaN
    ELSE IF x.k = "inf" /\ y.k = "inf" THEN NaN
    ELSE IF x.k = "inf" THEN Inf
    ELSE IF y.k = "inf" THEN Zero
    ELSE IF y.n = 0 THEN (IF x.n = 0 THEN NaN ELSE Inf)
    ELSE IF y.n > 0 THEN Fin(x.n * y.d, x.d * y.n)
    ELSE Fin(-(x.n * y.d), x.d * (-y.n))

(* x > y; a comparison with NaN is False *)
FGt(x, y) ==
    IF x.k = "nan" \/ y.k = "nan" THEN FALSE
    ELSE IF x.k = "inf" THEN y.k # "inf"
    ELSE IF y.k = "inf" THEN FALSE
    ELSE x.n * y.d > y.n * x.d

-----------------------------------------------------------------------------
(* Geometry *)

(* areas of the tiles; tile 2 is a degenerate sliver of area 0 and tile 7
   has exactly the area of the floor *)
CellArea == <<5, 0, 2, 4, 8, 3986, 1>>
Cells == DOMAIN CellArea

SetMin(S) == CHOOSE x \in S : \A y \in S : x <= y
SetMax(S) == CHOOSE x \in S : \A y \in S : x >= y

Polygon(cells) == [cells |-> cells, pts |-> {}]

area(g) == SumOver(g.cells, CellArea)

(* (minx, miny, maxx, maxy) *)
bounds(g) ==
    LET xs == {c - 1 : c \in g.cells} \cup g.cells \cup g.pts
    IN <<SetMin(xs), 0, SetMax(xs), 1>>

(* x coordinates covered by the boundary or interior of the tiles *)
Closure(cells) == {c - 1 : c \in cells} \cup cells

intersects(a, b) ==
    \/ Closure(a.cells) \cap Closure(b.cells) # {}
    \/ Closure(a.cells) \cap b.pts # {}
    \/ a.pts \cap Closure(b.cells) # {}
    \/ a.pts \cap b.pts # {}

intersection(a, b) ==
    LET shared == a.cells \cap b.cells
        common == (Closure(a.cells) \cup a.pts) \cap (Closure(b.cells) \cup b.pts)
    IN [cells |-> shared, pts |-> common \ Closure(shared)]

is_empty(g) == g.cells = {} /\ g.pts = {}

(* variant: the query returns only the boxes that contain the query box *)
BoxesIntersect_Contains(p, q) ==
    /\ p[1] <= q[1] /\ q[3] <= p[3]
    /\ p[2] <= q[2] /\ q[4] <= p[4]

(* closed rectangles overlap: the range query of the bounding-box index *)
BoxesIntersect(p, q) ==
    /\ p[1] <= q[3] /\ q[1] <= p[3]
    /\ p[2] <= q[4] /\ q[2] <= p[4]

(* to_crs between the two reference systems of the model: the strip is
   mirrored, x -> Len(CellArea) - x *)
Mirror(g) ==
    [cells |-> {Len(CellArea) + 1 - c : c \in g.cells},
     pts |-> {Len(CellArea) - x : x \in g.pts}]

-----------------------------------------------------------------------------
(* Tables: a row is a function from column names to values; a layer is
   [crs, columns, rows] *)

Col(name, year) == name \o ToString(year)

(* a dict literal / dict built by successive assignment: the last value
   given for a key is the one kept *)
Dict(items) ==
    [key \in {items[i][1] : i \in DOMAIN items} |->
        LET last == CHOOSE i \in DOMAIN items :
                        /\ items[i][1] = key
                        /\ \A j \in DOMAIN items : j > i => items[j][1] # key
        IN items[last][2]]

(* getattr(row, name, "") *)
getattr(row, name) == IF name \in DOMAIN row THEN row[name] ELSE ""

(* DataFrame.rename(columns=mapping) on one row *)
RenameName(c, mapping) == IF c \in DOMAIN mapping THEN mapping[c] ELSE c

RenameRow(row, mapping) ==
    [c \in {RenameName(o, mapping) : o \in DOMAIN row} |->
        row[CHOOSE o \in DOMAIN row : RenameName(o, mapping) = c]]

rename(gdf, mapping) ==
    [crs |-> gdf.crs,
     columns |-> {RenameName(c, mapping) : c \in gdf.columns},
     rows |-> [i \in DOMAIN gdf.rows |-> RenameRow(gdf.rows[i], mapping)]]

(* row with column c set to v *)
SetCol(row, c, v) == [x \in DOMAIN row \cup {c} |-> IF x = c THEN v ELSE row[x]]

(* DataFrame.drop(columns=cs) on one row *)
DropCols(row, cs) == [x \in DOMAIN row \ cs |-> row[x]]

(* GeoDataFrame.to_crs *)
to_crs(gdf, crs) ==
    [crs |-> crs,
     columns |-> gdf.columns,
     rows |-> [i \in DOMAIN gdf.rows |->
                  SetCol(gdf.rows[i], "geometry",
                         IF gdf.crs = crs THEN gdf.rows[i]["geometry"]
                         ELSE Mirror(gdf.rows[i]["geometry"]))]]

NoLayer == [crs |-> "", columns |-> {}, rows |-> <<>>]

-----------------------------------------------------------------------------
(* Input files *)

Region(pref, city, gun, code, cells) ==
    Dict(<< <<"PREF", pref>>, <<"CITY", city>>, <<"GUN", gun>>,
            <<"N03_007", code>>, <<"geometry", Polygon(cells)>> >>)

SourceRegions ==
    { Region("13", "A", "ga", "13101", {3}),
      Region("13", "B", "gb", "13102", {5}),
      Region("14", "C", "gc", "14101", {4, 7}) }

TargetRegions ==
    { Region("13", "X", "gx", "13201", {3, 4, 5, 6}),
      Region("14", "X", "gs", "14201", {3}),
      Region("15", "X", "gz", "15201", {2}),
      Region("13", "Y", "gy", "13202", {1, 7}) }

Full == {"PREF", "CITY", "GUN", "N03_007", "geometry"}
Bare == {"PREF", "CITY", "geometry"}
NoPref == {"CITY", "GUN", "geometry"}
NoCity == {"PREF", "N03_007", "geometry"}

(* columns of the source file and of the target file *)
ColumnChoices ==
    { <<Bare, Full>>, <<Full, Bare>>, <<NoPref, Full>>, <<Full, NoCity>> }

(* the file pairs the runs read: their columns and reference systems *)
FileChoices ==
    { [cols |-> <<Bare, Full>>, crs |-> <<"EPSG:4612", "EPSG:4612">>],
      [cols |-> <<Full, Bare>>, crs |-> <<"EPSG:4612", "EPSG:4301">>] }

(* layers of at most n rows: sequences of distinct Regions *)
SeqsUpTo(S, n) ==
    UNION {{f \in [1..m -> S] : \A i, j \in 1..m : f[i] = f[j] => i = j} :
              m \in 1..n}

(* gpd.read_file *)
read_file(regions, columns, crs) ==
    [crs |-> crs,
     columns |-> columns,
     rows |-> [i \in DOMAIN regions |-> [c \in columns |-> regions[i][c]]]]

Years == { <<2000, 1980>>, <<2000, 2000>> }

(* weight thresholds, as rationals *)
Thresholds == { Fin(-1, 1), Fin(0, 1), Fin(1, 1000) }

-----------------------------------------------------------------------------
(* load_shapefiles *)

RequiredCols == <<"PREF", "CITY">>

YearSuffix(columns, year) ==
    Dict(<< <<"PREF", Col("PREF", year)>>,
            <<"CITY", Col("CITY", year)>>,
            <<"GUN", IF "GUN" \in columns THEN Col("GUN", year) ELSE "None">> >>)

load_layer(regions, columns, crs, year) ==
    rename(read_file(regions, columns, crs), YearSuffix(columns, year))

HasRequired(cols) ==
    \A i \in DOMAIN RequiredCols :
        RequiredCols[i] \in cols[1] /\ RequiredCols[i] \in cols[2]

-----------------------------------------------------------------------------
(* calculate_intersections *)

(* leaf orders the index may give the rows it holds *)
Orders(S) ==
    {f \in [1..Cardinality(S) -> S] :
        \A i, j \in 1..Cardinality(S) : f[i] = f[j] => i = j}

(* list(target_sindex.intersection(source_row.geometry.bounds)) *)
PossibleMatches(source_row, tgdf, sindex) ==
    SelectSeq(sindex, LAMBDA j :
        BoxesIntersect(bounds(tgdf.rows[j]["geometry"]),
                       bounds(source_row["geometry"])))

(* variant: the floor test written area < floor *)
Survives_StrictFloor(sg, tg) ==
    /\ intersects(sg, tg)
    /\ ~ is_empty(intersection(sg, tg))
    /\ ~ (area(intersection(sg, tg)) < AreaFloor)

(* the tests of the inner loop: a pair yields a record *)
Survives(sg, tg) ==
    /\ intersects(sg, tg)
    /\ ~ is_empty(intersection(sg, tg))
    /\ ~ (area(intersection(sg, tg)) <= AreaFloor)

MakeRecord(source_row, target_row, sy, ty, geom) ==
    Dict(<< <<Col("PREF", sy), getattr(source_row, Col("PREF", sy))>>,
            <<Col("CITY", sy), getattr(source_row, Col("CITY", sy))>>,
            <<Col("GUN", sy), getattr(source_row, Col("GUN", sy))>>,
            <<Col("City Code ", sy), getattr(source_row, "N03_007")>>,
            <<Col("PREF", ty), getattr(target_row, Col("PREF", ty))>>,
            <<Col("CITY", ty), getattr(target_row, Col("CITY", ty))>>,
            <<Col("GUN", ty), getattr(target_row, Col("GUN", ty))>>,
            <<Col("City Code ", ty), getattr(target_row, "N03_007")>>,
            <<"intersection_area", area(geom)>>,
            <<"geometry", geom>> >>)

(* the candidates of `order` that yield a record, in order *)
Kept(source_row, tgdf, order) ==
    SelectSeq(order, LAMBDA j :
        Survives(source_row["geometry"], tgdf.rows[j]["geometry"]))

NewRecords(source_row, tgdf, order, sy, ty) ==
    LET kept == Kept(source_row, tgdf, order)
    IN [i \in DOMAIN kept |->
           MakeRecord(source_row, tgdf.rows[kept[i]], sy, ty,
                      intersection(source_row["geometry"],
                                   tgdf.rows[kept[i]]["geometry"]))]

-----------------------------------------------------------------------------
(* calculate_weights *)

(* the area dictionaries: one entry per city identifier, the last row
   with that identifier wins *)
AreaLookup(gdf, col) ==
    Dict([i \in DOMAIN gdf.rows |->
             <<gdf.rows[i][col], area(gdf.rows[i]["geometry"])>>])

(* Series.map(dict) on one value: NaN where the key is absent *)
MapValue(d, key) == IF key \in DOMAIN d THEN Fin(d[key], 1) ELSE NaN

(* variant: non-finite weights are left as they are *)
Weight_NoRepair(intersection_area, target_area) ==
    FDiv(Fin(intersection_area, 1), target_area)

Weight(intersection_area, target_area) ==
    LET w == FDiv(Fin(intersection_area, 1), target_area)
    IN IF ~ isfinite(w) THEN Zero ELSE w

(* the frame `intersections` after the three column assignments *)
WithWeights(rows, sgdf, tgdf, sy, ty) ==
    LET source_areas == AreaLookup(sgdf, Col("CITY", sy))
        target_areas == AreaLookup(tgdf, Col("CITY", ty))
    IN [i \in DOMAIN rows |->
          LET r1 == SetCol(rows[i], "source_area",
                           MapValue(source_areas, rows[i][Col("CITY", sy)]))
              r2 == SetCol(r1, "target_area",
                           MapValue(target_areas, r1[Col("CITY", ty)]))
          IN SetCol(r2, "weight",
                    Weight(r2["intersection_area"], r2["target_area"]))]

DroppedCols == {"geometry", "intersection_area", "source_area", "target_area"}

calculate_weights(rows, sgdf, tgdf, sy, ty) ==
    LET weighted == WithWeights(rows, sgdf, tgdf, sy, ty)
    IN [i \in DOMAIN weighted |-> DropCols(weighted[i], DroppedCols)]

(* variant: the filter written weight >= weight_threshold *)
AboveThreshold_Ge(w, threshold) == FGt(w, threshold) \/ w = threshold

(* crosswalk[crosswalk['weight'] > weight_threshold] *)
AboveThreshold(w, threshold) == FGt(w, threshold)

FilterRows(rows, threshold) ==
    SelectSeq(rows, LAMBDA r : AboveThreshold(r["weight"], threshold))

-----------------------------------------------------------------------------
(* create_crosswalk, step by step *)

NotReturned == [returned |-> FALSE, rows |-> <<>>]
Returned(rows) == [returned |-> TRUE, rows |-> rows]

Init ==
    /\ pc = "load"
    /\ \E y \in Years : source_year = y[1] /\ target_year = y[2]
    /\ weight_threshold \in Thresholds
    /\ source_gdf = NoLayer
    /\ target_gdf = NoLayer
    /\ target_sindex = <<>>
    /\ idx = 0
    /\ intersections_list = <<>>
    /\ pairs = <<>>
    /\ intersections = <<>>
    /\ crosswalk = <<>>
    /\ saved = <<>>
    /\ result = NotReturned
    /\ error = ""
    /\ stages = <<>>

(* variant: the exception is swallowed instead of re-raised *)
Fail_Swallowed(e) ==
    /\ pc' = "failed"
    /\ error' = ""

Fail(e) ==
    /\ pc' = "failed"
    /\ error' = e

(* both files exist, both have the required columns *)
LoadShapefiles ==
    /\ pc = "load"
    /\ \E f \in FileChoices,
          s \in SeqsUpTo(SourceRegions, MaxSource),
          t \in SeqsUpTo(TargetRegions, MaxTarget) :
        /\ HasRequired(f.cols)
        /\ source_gdf' = load_layer(s, f.cols[1], f.crs[1], source_year)
        /\ target_gdf' = load_layer(t, f.cols[2], f.crs[2], target_year)
    /\ pc' = "crs"
    /\ stages' = Append(stages, "load")
    /\ UNCHANGED <<source_year, target_year, weight_threshold, target_sindex,
                   idx, intersections_list, pairs, intersections, crosswalk,
                   saved, result, error>>

(* a file does not exist *)
LoadShapefilesNotFound ==
    /\ pc = "load"
    /\ Fail("FileNotFoundError")
    /\ stages' = Append(stages, "load")
    /\ UNCHANGED <<source_year, target_year, weight_threshold, source_gdf,
                   target_gdf, target_sindex, idx, intersections_list, pairs,
                   intersections, crosswalk, saved, result>>

(* a required column is absent *)
LoadShapefilesMissingColumn ==
    /\ pc = "load"
    /\ \E cols \in ColumnChoices : ~ HasRequired(cols)
    /\ Fail("ValueError")
    /\ stages' = Append(stages, "load")
    /\ UNCHANGED <<source_year, target_year, weight_threshold, source_gdf,
                   target_gdf, target_sindex, idx, intersections_list, pairs,
                   intersections, crosswalk, saved, result>>

EnsureCrsMatch ==
    /\ pc = "crs"
    /\ target_gdf' = IF source_gdf.crs # target_gdf.crs
                     THEN to_crs(target_gdf, source_gdf.crs)
                     ELSE target_gdf
    /\ pc' = "index"
    /\ stages' = Append(stages, "crs")
    /\ UNCHANGED <<source_year, target_year, weight_threshold, source_gdf,
                   target_sindex, idx, intersections_list, pairs,
                   intersections, crosswalk, saved, result, error>>

(* calculate_intersections starts: target_sindex = target_gdf.sindex *)
BuildSpatialIndex ==
    /\ pc = "index"
    /\ target_sindex' \in Orders(DOMAIN target_gdf.rows)
    /\ idx' = 0
    /\ intersections_list' = <<>>
    /\ pairs' = <<>>
    /\ pc' = "overlay"
    /\ stages' = Append(stages, "overlay")
    /\ UNCHANGED <<source_year, target_year, weight_threshold, source_gdf,
                   target_gdf, intersections, crosswalk, saved, result,
                   error>>

(* one iteration of the loop over the source rows *)
CalculateIntersectionsStep ==
    /\ pc = "overlay"
    /\ idx < Len(source_gdf.rows)
    /\ LET source_row == source_gdf.rows[idx + 1]
           order == PossibleMatches(source_row, target_gdf, target_sindex)
       IN /\ intersections_list' = intersections_list \o
                 NewRecords(source_row, target_gdf, order, source_year,
                            target_year)
          /\ pairs' = pairs \o
                 [i \in DOMAIN Kept(source_row, target_gdf, order) |->
                     <<idx + 1, Kept(source_row, target_gdf, order)[i]>>]
    /\ idx' = idx + 1
    /\ UNCHANGED <<pc, source_year, target_year, weight_threshold, source_gdf,
                   target_gdf, target_sindex, intersections, crosswalk, saved,
                   result, error, stages>>

(* a geometry operation raises on the k-th candidate of the iteration *)
CalculateIntersectionsRaise ==
    /\ pc = "overlay"
    /\ idx < Len(source_gdf.rows)
    /\ LET source_row == source_gdf.rows[idx + 1]
           order == PossibleMatches(source_row, target_gdf, target_sindex)
       IN \E k \in DOMAIN order :
            LET done == SubSeq(order, 1, k - 1) IN
            /\ intersections_list' = intersections_list \o
                   NewRecords(source_row, target_gdf, done, source_year,
                              target_year)
            /\ pairs' = pairs \o
                   [i \in DOMAIN Kept(source_row, target_gdf, done) |->
                       <<idx + 1, Kept(source_row, target_gdf, done)[i]>>]
    /\ Fail("GEOSException")
    /\ UNCHANGED <<source_year, target_year, weight_threshold, source_gdf,
                   target_gdf, target_sindex, idx, intersections, crosswalk,
                   saved, result, stages>>

(* the loop is over: calculate_intersections returns its frame *)
CalculateIntersectionsReturn ==
    /\ pc = "overlay"
    /\ idx = Len(source_gdf.rows)
    /\ intersections' = intersections_list
    /\ target_sindex' = <<>>
    /\ pc' = "overlaid"
    /\ UNCHANGED <<source_year, target_year, weight_threshold, source_gdf,
                   target_gdf, idx, intersections_list, pairs, crosswalk,
                   saved, result, error, stages>>

(* variant: the empty result is handed to the sink as well *)
ReturnEmpty_Saves ==
    /\ pc = "overlaid"
    /\ Len(intersections) = 0
    /\ saved' = Append(saved, <<>>)
    /\ result' = Returned(<<>>)
    /\ pc' = "done"
    /\ UNCHANGED <<source_year, target_year, weight_threshold, source_gdf,
                   target_gdf, target_sindex, idx, intersections_list, pairs,
                   intersections, crosswalk, error, stages>>

(* len(intersections) == 0: return pd.DataFrame() *)
ReturnEmpty ==
    /\ pc = "overlaid"
    /\ Len(intersections) = 0
    /\ result' = Returned(<<>>)
    /\ pc' = "done"
    /\ UNCHANGED <<source_year, target_year, weight_threshold, source_gdf,
                   target_gdf, target_sindex, idx, intersections_list, pairs,
                   intersections, crosswalk, saved, error, stages>>

CalculateWeights ==
    /\ pc \in {"overlaid", "weights"}
    /\ Len(intersections) # 0
    /\ intersections' = WithWeights(intersections, source_gdf, target_gdf,
                                    source_year, target_year)
    /\ crosswalk' = calculate_weights(intersections, source_gdf, target_gdf,
                                      source_year, target_year)
    /\ pc' = "filter"
    /\ stages' = Append(stages, "weights")
    /\ UNCHANGED <<source_year, target_year, weight_threshold, source_gdf,
                   target_gdf, target_sindex, idx, intersections_list, pairs,
                   saved, result, error>>

FilterByThreshold ==
    /\ pc = "filter"
    /\ crosswalk' = FilterRows(crosswalk, weight_threshold)
    /\ pc' = "save"
    /\ stages' = Append(stages, "filter")
    /\ UNCHANGED <<source_year, target_year, weight_threshold, source_gdf,
                   target_gdf, target_sindex, idx, intersections_list, pairs,
                   intersections, saved, result, error>>

(* save_crosswalk(crosswalk, output_path); return crosswalk *)
SaveCrosswalk ==
    /\ pc = "save"
    /\ saved' = Append(saved, crosswalk)
    /\ result' = Returned(crosswalk)
    /\ pc' = "done"
    /\ stages' = Append(stages, "save")
    /\ UNCHANGED <<source_year, target_year, weight_threshold, source_gdf,
                   target_gdf, target_sindex, idx, intersections_list, pairs,
                   intersections, crosswalk, error>>

Next ==
    \/ LoadShapefiles
    \/ LoadShapefilesNotFound
    \/ LoadShapefilesMissingColumn
    \/ EnsureCrsMatch
    \/ BuildSpatialIndex
    \/ CalculateIntersectionsStep
    \/ CalculateIntersectionsRaise
    \/ CalculateIntersectionsReturn
    \/ ReturnEmpty
    \/ CalculateWeights
    \/ FilterByThreshold
    \/ SaveCrosswalk

Spec == Init /\ [][Next]_vars

-----------------------------------------------------------------------------
(* calculate_weights called directly, on any frame of records, followed by
   the rest of create_crosswalk *)

LoadedRow(region, year) == load_layer(<<region>>, Full, "EPSG:4612", year).rows[1]

(* a target row whose city identifier is in no target layer *)
UnknownTarget == Region("16", "Z", "gq", "16201", {3, 4, 5, 6})

GivenRecords ==
    { MakeRecord(LoadedRow(Region("13", "A", "ga", "13101", {3}), 2000),
                 LoadedRow(t, 1980), 2000, 1980, Polygon({3})) :
        t \in TargetRegions \cup {UnknownTarget} }

GivenSources ==
    { load_layer(<<r>>, Full, "EPSG:4612", 2000) :
        r \in { Region("13", "A", "ga", "13101", {3}),
                Region("13", "B", "gb", "13102", {5}) } }

InitW ==
    /\ pc = "weights"
    /\ source_year = 2000
    /\ target_year = 1980
    /\ weight_threshold \in Thresholds
    /\ source_gdf \in GivenSources
    /\ \E t \in SeqsUpTo(TargetRegions, MaxTarget) :
          target_gdf = load_layer(t, Full, "EPSG:4612", 1980)
    /\ target_sindex = <<>>
    /\ idx = 0
    /\ intersections \in SeqsUpTo(GivenRecords, MaxRecords)
    /\ intersections_list = intersections
    /\ pairs = <<>>
    /\ crosswalk = <<>>
    /\ saved = <<>>
    /\ result = NotReturned
    /\ error = ""
    /\ stages = <<>>

NextW ==
    \/ CalculateWeights
    \/ FilterByThreshold
    \/ SaveCrosswalk

WSpec == InitW /\ [][NextW]_vars

-----------------------------------------------------------------------------
(* Properties *)

Ran(stage) == \E i \in DOMAIN stages : stages[i] = stage

SourceRows == source_gdf.rows
TargetRows == target_gdf.rows

(* tiles two rows have in common, and their area *)
SharedCells(s, t) ==
    SourceRows[s]["geometry"].cells \cap TargetRows[t]["geometry"].cells
SharedArea(s, t) == SumOver(SharedCells(s, t), CellArea)

(* the overlay has run to its end *)
OverlayDone == pc \in {"overlaid", "filter", "save", "done"} /\ Ran("overlay")

(* the un-clipped area of target row t *)
TargetArea(t) == SumOver(TargetRows[t]["geometry"].cells, CellArea)

(* C1: after calculate_weights, the weight of every record equals its
   intersection area divided by the full area of the target Region the
   record was produced from. *)
C1_WeightIsShareOfOwnTarget ==
    Ran("weights") =>
        \A i \in DOMAIN intersections :
            LET w == intersections[i]["weight"]
            IN /\ w.k = "fin"
               /\ w.n * TargetArea(pairs[i][2])
                    = intersections[i]["intersection_area"] * w.d

(* C2: every row of the table returned by create_crosswalk has a finite
   weight with 0 < weight <= 1, whatever the layers and the threshold. *)
C2_WeightInUnitInterval ==
    result.returned =>
        \A i \in DOMAIN result.rows :
            LET w == result.rows[i]["weight"]
            IN w.k = "fin" /\ 0 < w.n /\ w.n <= w.d

(* indexes of the weighted rows whose weight is strictly above the threshold *)
AboveIdx ==
    {i \in DOMAIN intersections :
        intersections[i]["weight"].n * weight_threshold.d
            > weight_threshold.n * intersections[i]["weight"].d}

(* the k-th smallest element of a set of indexes *)
Nth(S, k) == CHOOSE i \in S : Cardinality({j \in S : j <= i}) = k

(* C3: after the filter the table holds exactly the weighted rows whose
   weight is strictly greater than weight_threshold, unchanged and in their
   original order. *)
C3_FilterKeepsExactlyAbove ==
    Ran("filter") =>
        /\ Len(crosswalk) = Cardinality(AboveIdx)
        /\ \A k \in DOMAIN crosswalk :
              LET r == intersections[Nth(AboveIdx, k)]
              IN /\ DOMAIN crosswalk[k] = DOMAIN r \ DroppedCols
                 /\ \A c \in DOMAIN crosswalk[k] : crosswalk[k][c] = r[c]

C3_Witness ==
    /\ pc = "save"
    /\ weight_threshold = Fin(1, 1000)
    /\ \E i \in DOMAIN intersections :
          intersections[i]["weight"] = Fin(1, 2000)
    /\ \E i \in DOMAIN intersections :
          intersections[i]["weight"] = Fin(2, 1000)
    /\ Len(crosswalk) = 1

(* the pairs of rows whose common part has area above the floor *)
OverlappingPairs ==
    {p \in (DOMAIN SourceRows) \X (DOMAIN TargetRows) :
        SharedArea(p[1], p[2]) > AreaFloor}

(* C4: calculate_intersections produces exactly one record for each pair
   whose intersection has area strictly above the floor, none for any other
   pair, and the records appear in source-layer order. *)
C4_OneRecordPerOverlap ==
    OverlayDone =>
        /\ Len(intersections_list) = Cardinality(OverlappingPairs)
        /\ {pairs[i] : i \in DOMAIN pairs} = OverlappingPairs
        /\ \A i, j \in DOMAIN pairs : i < j => pairs[i][1] <= pairs[j][1]
        /\ \A i \in DOMAIN intersections_list :
              /\ intersections_list[i]["geometry"].cells
                    = SharedCells(pairs[i][1], pairs[i][2])
              /\ intersections_list[i]["intersection_area"]
                    = SharedArea(pairs[i][1], pairs[i][2])

C4_Witness ==
    /\ pc = "overlaid"
    /\ Len(intersections_list) >= 1
    /\ \E s \in DOMAIN SourceRows, t \in DOMAIN TargetRows :
          /\ SharedCells(s, t) # {}
          /\ SharedArea(s, t) = AreaFloor
    /\ \E s \in DOMAIN SourceRows, t \in DOMAIN TargetRows :
          /\ SharedCells(s, t) = {}
          /\ intersects(SourceRows[s]["geometry"], TargetRows[t]["geometry"])

(* no two rows of the source layer overlap *)
SourcesDisjoint ==
    \A s1, s2 \in DOMAIN SourceRows :
        s1 # s2 => SourceRows[s1]["geometry"].cells
                     \cap SourceRows[s2]["geometry"].cells = {}

(* target row t lies inside the union of the source rows *)
Covered(t) ==
    TargetRows[t]["geometry"].cells
        \subseteq UNION {SourceRows[s]["geometry"].cells : s \in DOMAIN SourceRows}

(* sum of weight * ta over the records with indexes in S, as a rational *)
RECURSIVE WeightedSum(_, _)
WeightedSum(S, ta) ==
    IF S = {} THEN Zero
    ELSE LET i == CHOOSE j \in S : TRUE
             w == intersections[i]["weight"]
             rest == WeightedSum(S \ {i}, ta)
         IN Fin(w.n * ta * rest.d + rest.n * w.d, w.d * rest.d)

(* C5: area conservation.  For a target Region fully covered by the source
   Regions (which, as the data model assumes of a layer, do not overlap one
   another), the sum of weight * target_area over its records equals its
   area, up to one floor per source Region for the pieces the floor drops. *)
C5_AreaConservation ==
    (Ran("weights") /\ SourcesDisjoint) =>
        \A t \in DOMAIN TargetRows :
            Covered(t) =>
                LET total == WeightedSum({i \in DOMAIN pairs : pairs[i][2] = t},
                                         TargetArea(t))
                IN Abs(total.n - TargetArea(t) * total.d)
                      <= Len(SourceRows) * AreaFloor * total.d

(* city identifiers of the target layer, and the area the lookup holds *)
TargetCities ==
    {TargetRows[j][Col("CITY", target_year)] : j \in DOMAIN TargetRows}

LookedUpArea(city) ==
    TargetArea(SetMax({j \in DOMAIN TargetRows :
                          TargetRows[j][Col("CITY", target_year)] = city}))

NoTargetArea(r) ==
    \/ r[Col("CITY", target_year)] \notin TargetCities
    \/ LookedUpArea(r[Col("CITY", target_year)]) = 0

(* C6: in calculate_weights a record whose target area is missing from the
   lookup or is zero gets weight exactly 0; no record is dropped; a missing
   source area does not change the weight; with a positive threshold no
   zero-weight row is in the filtered table. *)
C6_MissingOrZeroAreaGivesZero ==
    /\ pc = "filter" =>
          /\ Len(crosswalk) = Len(intersections_list)
          /\ \A i \in DOMAIN crosswalk :
                LET r == intersections_list[i]
                    w == crosswalk[i]["weight"]
                IN /\ NoTargetArea(r) => w = Zero
                   /\ ~ NoTargetArea(r) =>
                         /\ w.k = "fin"
                         /\ w.n * LookedUpArea(r[Col("CITY", target_year)])
                               = r["intersection_area"] * w.d
    /\ (Ran("filter") /\ weight_threshold.n > 0) =>
          \A k \in DOMAIN crosswalk : crosswalk[k]["weight"] # Zero

C6_Witness ==
    /\ pc = "filter"
    /\ \E i \in DOMAIN intersections :
          /\ intersections[i][Col("CITY", target_year)] \notin TargetCities
          /\ isna(intersections[i]["target_area"])
          /\ isna(intersections[i]["source_area"])
          /\ crosswalk[i]["weight"] = Zero
    /\ \E i \in DOMAIN intersections :
          /\ intersections[i]["target_area"] = Zero
          /\ crosswalk[i]["weight"] = Zero

(* C7: a fatal failure (missing file, missing required column, a geometry
   operation raising on a pair) propagates to the caller; no intersection
   records are returned, no later stage runs and the sink is not invoked. *)
C7_FailureAbortsRun ==
    pc = "failed" =>
        /\ error # ""
        /\ ~ result.returned
        /\ intersections = <<>>
        /\ crosswalk = <<>>
        /\ saved = <<>>
        /\ ~ Ran("weights") /\ ~ Ran("filter") /\ ~ Ran("save")

C7_Witness ==
    /\ pc = "failed"
    /\ error = "GEOSException"
    /\ Len(intersections_list) >= 1
    /\ idx >= 1

(* C8: every record holds the PREF, CITY, GUN and City Code of the source
   Region and of the target Region it was produced from, an absent
   attribute being recorded as the empty value, for every choice of the two
   years. *)
C8_RecordHoldsBothIdentities ==
    \A i \in DOMAIN intersections_list :
        LET r == intersections_list[i]
            s == SourceRows[pairs[i][1]]
            t == TargetRows[pairs[i][2]]
        IN /\ r[Col("PREF", source_year)] = s[Col("PREF", source_year)]
           /\ r[Col("CITY", source_year)] = s[Col("CITY", source_year)]
           /\ r[Col("GUN", source_year)] =
                 (IF Col("GUN", source_year) \in source_gdf.columns
                  THEN s[Col("GUN", source_year)] ELSE "")
           /\ r[Col("City Code ", source_year)] =
                 (IF "N03_007" \in source_gdf.columns THEN s["N03_007"] ELSE "")
           /\ r[Col("PREF", target_year)] = t[Col("PREF", target_year)]
           /\ r[Col("CITY", target_year)] = t[Col("CITY", target_year)]
           /\ r[Col("GUN", target_year)] =
                 (IF Col("GUN", target_year) \in target_gdf.columns
                  THEN t[Col("GUN", target_year)] ELSE "")
           /\ r[Col("City Code ", target_year)] =
                 (IF "N03_007" \in target_gdf.columns THEN t["N03_007"] ELSE "")

AllStages == <<"load", "crs", "overlay", "weights", "filter", "save">>

(* C9: the stages run in the order load, reference-system normalisation, overlay,
   weighting, filter, sink.  A run whose overlay yields no record returns
   an empty table without weighting, filtering or saving; every other run
   that ends hands the sink, exactly once and after the filter, exactly the
   rows whose weight exceeds the threshold, and returns that table. *)
C9_StageOrderAndEmission ==
    /\ Len(stages) <= Len(AllStages)
    /\ \A i \in DOMAIN stages : stages[i] = AllStages[i]
    /\ Len(saved) <= 1
    /\ saved # <<>> => Ran("filter") /\ pc = "done"
    /\ (pc = "done" /\ intersections_list = <<>>) =>
          /\ result = Returned(<<>>)
          /\ saved = <<>>
          /\ stages = SubSeq(AllStages, 1, 3)
    /\ (pc = "done" /\ intersections_list # <<>>) =>
          /\ stages = AllStages
          /\ Len(saved) = 1
          /\ result = Returned(saved[1])
          /\ Len(saved[1]) = Cardinality(AboveIdx)
          /\ \A k \in DOMAIN saved[1] :
                /\ saved[1][k]["weight"].n * weight_threshold.d
                      > weight_threshold.n * saved[1][k]["weight"].d
                /\ \A c \in DOMAIN saved[1][k] :
                      saved[1][k][c] = intersections[Nth(AboveIdx, k)][c]

C9_Witness ==
    /\ pc = "done"
    /\ intersections_list # <<>>
    /\ saved = << <<>> >>

(* the records of the exact tests run on every pair of the cross-product *)
NaiveRecords ==
    { <<p, MakeRecord(SourceRows[p[1]], TargetRows[p[2]], source_year,
                      target_year,
                      intersection(SourceRows[p[1]]["geometry"],
                                   TargetRows[p[2]]["geometry"]))>> :
        p \in {q \in (DOMAIN SourceRows) \X (DOMAIN TargetRows) :
                  Survives(SourceRows[q[1]]["geometry"],
                           TargetRows[q[2]]["geometry"])} }

(* C10: the records produced from the bounding-box candidates are the
   records the exact tests produce on the whole cross-product. *)
C10_PruningPreservesRecords ==
    OverlayDone =>
        {<<pairs[i], intersections_list[i]>> : i \in DOMAIN intersections_list}
            = NaiveRecords

C10_Witness ==
    /\ pc = "overlaid"
    /\ Len(intersections_list) >= 1
    /\ \E s \in DOMAIN SourceRows, t \in DOMAIN TargetRows :
          ~ BoxesIntersect(bounds(TargetRows[t]["geometry"]),
                           bounds(SourceRows[s]["geometry"]))
    /\ \E s \in DOMAIN SourceRows, t \in DOMAIN TargetRows :
          /\ BoxesIntersect(bounds(TargetRows[t]["geometry"]),
                            bounds(SourceRows[s]["geometry"]))
          /\ ~ intersects(SourceRows[s]["geometry"], TargetRows[t]["geometry"])

====
